---- MODULE Spec2Model ----
(***************************************************************************)
(* Model of the request pipeline of the AINative Go SDK client             *)
(* (src/ainative/client.go): NewClient, Client.makeRequest with its rate   *)
(* limiter (golang.org/x/time/rate), the retry loop of the HTTP client     *)
(* (go-resty/resty/v2, configured by NewClient) and the mapping of the     *)
(* final response to the returned error; plus the pre-flight validation    *)
(* of the service methods that call makeRequest.                           *)
(*                                                                         *)
(* Time is counted in ticks.  The limiter refills one token every          *)
(* TicksPerToken ticks, and token amounts are kept in ticks' worth of      *)
(* refill, so that the float arithmetic of the limiter is exact here.      *)
(***************************************************************************)
EXTENDS Integers, Sequences, FiniteSets, TLC

\* ---------------------------------------------------------------- bounds
NumCallers == 2        \* goroutines sharing the client
MaxTime == 3           \* the clock stops after this many ticks
MaxCalls == 3          \* calls issued on one client
MaxRetriesCfg == 2     \* largest RetryConfig.MaxRetries tried
TicksPerToken == 2     \* clock resolution: ticks per refilled token

\* ------------------------------------------------------ program constants
DefaultMaxRetries == 3
DefaultRateLimit == 100
DefaultBaseURL == "https://api.ainative.studio"
DefaultTimeout == 30   \* seconds
\* The default RetryConfig's delays, in units of 100 ms.
DefaultInitialDelay == 1
DefaultMaxDelay == 100
\* The TopK VectorsService.Search puts in place of one that is not positive.
DefaultTopK == 5

Callers == 1..NumCallers

Min(a, b) == IF a < b THEN a ELSE b
Max(a, b) == IF a > b THEN a ELSE b

\* ------------------------------------------------------------ the inputs
\* Config.RetryConfig is a pointer: nil, or a RetryConfig with MaxRetries,
\* InitialDelay, MaxDelay (in units of 100 ms), BackoffMultiplier, Jitter.
NilRetryConfig ==
    [isNil |-> TRUE, MaxRetries |-> 0, InitialDelay |-> 0, MaxDelay |-> 0,
     BackoffMultiplier |-> 0, Jitter |-> FALSE]

RetryConfigs ==
    {NilRetryConfig}
        \cup {[isNil |-> FALSE, MaxRetries |-> n, InitialDelay |-> 1, MaxDelay |-> 1,
                BackoffMultiplier |-> 2, Jitter |-> FALSE] : n \in 0..MaxRetriesCfg}

\* The RetryConfigs of the runs that are about the delay before a retry.
BackoffRetryConfigs ==
    [isNil : {FALSE}, MaxRetries : {MaxRetriesCfg}, InitialDelay : {1, 2},
     MaxDelay : {1, 4, 6}, BackoffMultiplier : {2, 3}, Jitter : BOOLEAN]

\* Config.BaseURL: empty, absolute, without a scheme and a host, and two
\* that url.Parse turns down.
BaseURLs == {"", "https://api.example.com", "api.example.com", "/v1",
             "://invalid-url-scheme", "http://[::1"}

\* A *Config: nil, or its fields.
NilConfig ==
    [isNil |-> TRUE, APIKey |-> "", BaseURL |-> "", OrganizationID |-> "",
     ProjectID |-> "", Timeout |-> 0, RateLimit |-> 0,
     RetryConfig |-> NilRetryConfig]

\* The configurations of the runs that are about the requests.
Configs ==
    [isNil : {FALSE}, APIKey : {"k"}, BaseURL : {"https://api.example.com"},
     OrganizationID : {""}, ProjectID : {""}, Timeout : {0},
     RateLimit : {0, 1, 2}, RetryConfig : RetryConfigs]

\* The configurations of the runs that are about the construction.
NewConfigs ==
    {NilConfig}
        \cup [isNil : {FALSE}, APIKey : {"", "k"}, BaseURL : BaseURLs,
               OrganizationID : {"", "o"}, ProjectID : {"", "p"},
               Timeout : {0, 5}, RateLimit : {0, 50},
               RetryConfig : {NilRetryConfig}]

\* The method strings handed to makeRequest.
Methods == {"GET", "post", "TRACE"}

\* strings.ToUpper on the method strings above.
ToUpper(m) == IF m = "post" THEN "POST" ELSE m

Messages == {"", "m1", "m2"}
Codes == {"", "c1"}
RequestIDs == {"", "r1"}
HeaderIDs == {"", "h1"}

\* A response as the HTTP client hands it over: the status, whether the
\* body is well-formed JSON ("json") or not ("bad"), the fields of an error
\* body ("" = the field is absent) and the X-Request-ID response header.
ErrorResponses ==
    [status : {400, 429, 500}, kind : {"json"},
     message : Messages, code : Codes, rid : RequestIDs, hdr : HeaderIDs]
    \cup
    [status : {400, 429, 500}, kind : {"bad"},
     message : {""}, code : {""}, rid : {""}, hdr : HeaderIDs]

OtherResponses ==
    [status : {200, 304}, kind : {"json", "bad"},
     message : {""}, code : {""}, rid : {""}, hdr : {""}]

Responses == ErrorResponses \cup OtherResponses

\* The two responses of the runs that are about the limiter and the callers.
PlainResponses ==
    {r \in Responses : /\ r.kind = "json" /\ r.hdr = "" /\ r.rid = ""
                       /\ \/ r.status = 200
                          \/ r.status = 500 /\ r.message = "m1" /\ r.code = "c1"}

\* The responses of the runs that are about the statuses that are retried:
\* statuses at the ends of the 4xx and the 5xx range and next to them.
StatusResponses ==
    [status : {200, 400, 429, 499, 500, 599, 600}, kind : {"json"},
     message : {"m1"}, code : {""}, rid : {""}, hdr : {""}]

\* A 200 whose body is a JSON object without the fields of the result.
EmptyObject ==
    [status |-> 200, kind |-> "empty", message |-> "", code |-> "", rid |-> "",
     hdr |-> ""]

\* The responses of the runs that are about the service methods.
SvcResponses == PlainResponses \cup {EmptyObject}

\* ------------------------------------------------------------- the state
VARIABLES
    config,        \* Client.config after NewClient's defaults
    httpClient,    \* the resty client: its RetryCount
    rateLimiter,   \* rate.Limiter: tokens, last, lastEvent
    now,           \* the clock
    call,          \* per caller: the makeRequest call it is in
    issued         \* the Wait calls the limiter has seen, in order

vars == <<config, httpClient, rateLimiter, now, call, issued>>

\* ------------------------------------------------------- the rate limiter
\* rate.NewLimiter(rate.Limit(RateLimit), RateLimit): the bucket starts
\* full, and its burst is the configured rate.
NewLimiter(rateLimit) ==
    [tokens |-> rateLimit * TicksPerToken, last |-> 0, lastEvent |-> 0]

Burst == config.RateLimit
Capacity == Burst * TicksPerToken

\* advance without the cap at the burst.
advance_Uncapped(lim, t) ==
    LET last == IF t < lim.last THEN t ELSE lim.last
    IN  lim.tokens + (t - last)

\* Limiter.advance: the tokens at time t, refilled since lim.last and
\* capped at the burst.
advance(lim, t) ==
    LET last == IF t < lim.last THEN t ELSE lim.last
    IN  Min(Capacity, lim.tokens + (t - last))

\* reserveN leaving the bucket as it found it: the reservation of a caller
\* that read the tokens while another caller's reservation was not yet
\* written back.
reserveN_StaleTokens(lim, t, maxFutureReserve) ==
    LET tokens == advance(lim, t) - TicksPerToken
        waitDuration == IF tokens < 0 THEN 0 - tokens ELSE 0
        ok == /\ 1 <= Burst
              /\ (maxFutureReserve = -1 \/ waitDuration <= maxFutureReserve)
    IN  [ok |-> ok, timeToAct |-> t + waitDuration, lim |-> lim]

\* Limiter.reserveN(t, 1, maxFutureReserve): the reservation of one token.
\* It runs under the limiter's mutex, so it is one step.
\* maxFutureReserve is -1 for a context without a deadline (InfDuration).
reserveN(lim, t, maxFutureReserve) ==
    LET tokens == advance(lim, t) - TicksPerToken
        waitDuration == IF tokens < 0 THEN 0 - tokens ELSE 0
        ok == /\ 1 <= Burst
              /\ (maxFutureReserve = -1 \/ waitDuration <= maxFutureReserve)
    IN  [ok |-> ok,
         timeToAct |-> t + waitDuration,
         lim |-> IF ok
                 THEN [tokens |-> tokens, last |-> t, lastEvent |-> t + waitDuration]
                 ELSE lim]

\* A cancellation that gives nothing back.
restoreTokens_None(lim, timeToAct, t) == 0

\* The tokens Reservation.CancelAt gives back: the reserved token less what
\* was reserved after it (lastEvent - timeToAct), and nothing once the
\* reservation's time has passed.
restoreTokens(lim, timeToAct, t) ==
    IF timeToAct < t THEN 0
    ELSE LET r == TicksPerToken - (lim.lastEvent - timeToAct)
         IN  IF r <= 0 THEN 0 ELSE r

\* Reservation.CancelAt(t) for a reservation of one token due at timeToAct.
CancelAt(lim, timeToAct, t) ==
    LET restore == restoreTokens(lim, timeToAct, t)
        prevEvent == timeToAct - TicksPerToken
    IN  IF restore = 0 THEN lim
        ELSE [tokens |-> Min(Capacity, advance(lim, t) + restore),
              last |-> t,
              lastEvent |-> IF timeToAct = lim.lastEvent /\ prevEvent >= t
                            THEN prevEvent ELSE lim.lastEvent]

\* The tokens a caller arriving at time t would find.
Available(lim, t) == advance(lim, t)

\* ------------------------------------------------------------- the errors
\* The error a call returns.  kind: "pending" while the call runs, "nil"
\* for success, "api" for an *APIError, "ratelimit" for "rate limit wait
\* failed: ...", "unsupported" for "unsupported HTTP method: ...", "request"
\* for "request failed: ...", "validation" for a *ValidationError.  cause is
\* the wrapped error (or the field of a ValidationError).
Err(kind, cause) ==
    [kind |-> kind, cause |-> cause,
     StatusCode |-> 0, Message |-> "", Code |-> "", RequestID |-> ""]

\* APIError.IsRateLimitError, IsServerError and IsRetryable.
IsRateLimitError(e) == e.StatusCode = 429

IsServerError(e) == e.StatusCode >= 500 /\ e.StatusCode < 600

IsRetryable(e) == IsServerError(e) \/ IsRateLimitError(e)

\* var apiError APIError: the zero value.
ZeroAPIError == [Message |-> "", Code |-> "", RequestID |-> ""]

NoResponse ==
    [status |-> 0, kind |-> "", message |-> "", code |-> "", rid |-> "", hdr |-> ""]

\* fmt.Sprintf("API request failed with status %d", status)
FallbackMessage(status) == "API request failed with status " \o ToString(status)

\* ctx.Err(): "" for nil, "canceled" for context.Canceled, "deadline" for
\* context.DeadlineExceeded.  deadline = -1: the context has no deadline.
CtxErr(c, t) ==
    IF c.cancelled THEN "canceled"
    ELSE IF c.deadline # -1 /\ t >= c.deadline THEN "deadline"
    ELSE ""

\* ------------------------------------------------------------- the calls
\* A *VectorSearchRequest: nil, or its Vector (the length of the slice is
\* all that is kept of it) and its TopK.
NilSearchRequest == [isNil |-> TRUE, Vector |-> 0, TopK |-> 0]

VectorSearchRequests ==
    {NilSearchRequest} \cup [isNil : {FALSE}, Vector : {0, 3}, TopK : {-1, 0, 5}]

\* RegisteredClaims.ExpiresAt = nil: the claims have no "exp".
NoExpiry == -1

\* A token string, by what jwt.Parser.ParseUnverified looks at: the number
\* of segments between the dots, whether the header and the claims
\* segments decode (base64 and JSON, "json") or not ("bad"), the "alg" of
\* the header, and the "exp" of the claims, in ticks of the clock.
Tokens ==
    [segments : {1, 3}, header : {"json", "bad"}, alg : {"HS256", "bogus"},
     claims : {"json", "bad"}, exp : {NoExpiry} \cup 0..(MaxTime + 1)]

NoToken ==
    [segments |-> 0, header |-> "", alg |-> "", claims |-> "", exp |-> NoExpiry]

IdleCall ==
    [pc |-> "idle", op |-> "", arg |-> "", method |-> "", hasResult |-> FALSE,
     sent |-> [project |-> "", org |-> ""], result |-> "nil",
     req |-> NilSearchRequest, body |-> NilSearchRequest,
     token |-> NoToken, at |-> 0, expired |-> FALSE, expTime |-> NoExpiry,
     cancelled |-> FALSE, deadline |-> -1,
     timeToAct |-> 0, attempts |-> 0, delay |-> 0, prevDelay |-> 0,
     apiError |-> ZeroAPIError, errorSet |-> FALSE,
     resp |-> NoResponse, decoded |-> FALSE,
     err |-> Err("pending", ""), spanStarts |-> 0, spanEnds |-> 0,
     \* history of the call, kept for the properties
     callNo |-> 0, first |-> 0, lead500 |-> 0, succeeded |-> FALSE,
     outcome |-> "", doneIn |-> "", returned |-> FALSE,
     overtaken |-> FALSE, invalidArgs |-> FALSE]

\* What the service method that called makeRequest returns beside the
\* error: nil with an error; else a pointer to its result, or, for
\* ListAPIKeys, the slice decoded from the body's api_keys, nil when the
\* body has none.
Result(c, e) ==
    IF e.kind # "nil" \/ c.op = "makeRequest" THEN "nil"
    ELSE IF c.op = "ListAPIKeys"
    THEN IF c.resp.kind = "json" THEN "value" ELSE "nil"
    ELSE "value"

\* return err with span.End() as the last statement of the function, not
\* deferred: the returns with an error leave the span open.
Finish_SpanOpenOnError(c, e) ==
    [c EXCEPT !.pc = "done", !.err = e,
              !.spanEnds = IF e.kind = "nil" THEN @ + 1 ELSE @,
              !.result = Result(c, e),
              !.cancelled = FALSE, !.deadline = -1, !.timeToAct = 0,
              !.delay = 0, !.prevDelay = 0]

\* return err, with the deferred span.End(); the context and the
\* reservation of the call are gone with it.
Finish(c, e) ==
    [c EXCEPT !.pc = "done", !.err = e, !.spanEnds = @ + 1,
              !.result = Result(c, e),
              !.cancelled = FALSE, !.deadline = -1, !.timeToAct = 0,
              !.delay = 0, !.prevDelay = 0]

\* The retry condition with every status from 400 up taken for retryable.
RetryCondition_ClientErrors(status, hasErr) ==
    IF hasErr THEN TRUE ELSE status >= 400

\* The retry condition asked again after a response that was a success.
RetryCondition_Always(status, hasErr) == TRUE

\* The retry condition NewClient adds: retry on an error, on a 5xx status
\* and on 429.
RetryCondition(status, hasErr) ==
    IF hasErr THEN TRUE ELSE status >= 500 \/ status = 429

\* json.Unmarshal of an error body into the call's apiError: a field the
\* body carries is overwritten, a field it lacks is left as it was.
Unmarshal(apiError, r) ==
    [Message |-> IF r.message # "" THEN r.message ELSE apiError.Message,
     Code |-> IF r.code # "" THEN r.code ELSE apiError.Code,
     RequestID |-> IF r.rid # "" THEN r.rid ELSE apiError.RequestID]

\* makeRequest after the request has run: the error for the caller.
\* execErr is the error of the HTTP client ("" for nil).
Return(c, r, execErr) ==
    IF execErr # "" THEN Finish(c, Err("request", execErr))
    ELSE IF r.status >= 400
    THEN IF c.apiError.Message # ""
         THEN Finish(c, [kind |-> "api", cause |-> "",
                         StatusCode |-> r.status,
                         Message |-> c.apiError.Message,
                         Code |-> c.apiError.Code,
                         RequestID |-> c.apiError.RequestID])
         ELSE Finish(c, [kind |-> "api", cause |-> "",
                         StatusCode |-> r.status,
                         Message |-> FallbackMessage(r.status),
                         Code |-> "",
                         RequestID |-> r.hdr])
    ELSE Finish(c, Err("nil", ""))

\* The retry loop counting the retries one too far.
AfterAttempt_OneMore(c, r, execErr, t) ==
    LET attempt == c.attempts - 1
    IN  IF /\ CtxErr(c, t) = ""
           /\ RetryCondition(r.status, execErr # "")
           /\ attempt <= httpClient.RetryCount
        THEN [c EXCEPT !.pc = "sleep", !.resp = NoResponse, !.decoded = FALSE]
        ELSE Return(c, r, execErr)

\* The retry loop of the HTTP client after one attempt (resty's Backoff,
\* set up by SetRetryCount and AddRetryCondition): it returns when the
\* context is done, when the retry condition says no, or when the attempt
\* was the last one; otherwise it sleeps before the next attempt.
AfterAttempt(c, r, execErr, t) ==
    LET attempt == c.attempts - 1
    IN  IF /\ CtxErr(c, t) = ""
           /\ RetryCondition(r.status, execErr # "")
           /\ attempt < httpClient.RetryCount
        THEN [c EXCEPT !.pc = "sleep", !.resp = NoResponse, !.decoded = FALSE]
        ELSE Return(c, r, execErr)

\* The delay the HTTP client sleeps before a retry, after the attempt
\* numbered attempt (from 0): its default backoff, with the wait time and
\* the maximal wait time NewClient hands it.  It draws the delay at random
\* from the upper half of min(max, min * 2^attempt), and raises it to min.
JitterBackoff(min, max, attempt) ==
    LET temp == Min(max, min * 2^attempt)
    IN  (IF temp < 2 * min THEN {min} ELSE {})
            \cup {d \in min..(temp - 1) : 2 * d >= temp}

\* The call going to sleep for the delay d, if it goes to sleep.
Sleeping(c, d) ==
    IF c.pc = "sleep" THEN [c EXCEPT !.delay = d, !.prevDelay = c.delay] ELSE c

\* One attempt starts: the transport refuses to send on a context that is
\* done, and the retry loop then returns that error.
BeginAttempt(c, t) ==
    IF CtxErr(c, t) # ""
    THEN Finish(c, Err("request", CtxErr(c, t)))
    ELSE [c EXCEPT !.pc = "send", !.attempts = @ + 1,
                   !.sent = IF c.attempts = 0 THEN httpClient.Header ELSE @]

SupportedMethods == {"GET", "POST", "PUT", "DELETE", "PATCH"}

\* makeRequest once the limiter has let the call pass: the request is
\* built, with SetError(&apiError), and the switch on the method runs it.
Dispatch(c, t) ==
    LET req == [c EXCEPT !.errorSet = TRUE]
    IN  IF ToUpper(c.method) \in SupportedMethods
        THEN BeginAttempt(req, t)
        ELSE Finish(req, Err("unsupported", c.method))

\* ------------------------------------------------------------ the client
\* url.Parse on the base URLs above: the error, and the scheme and the
\* host of the URL it returns.
UrlParse(u) ==
    IF u = "://invalid-url-scheme"
    THEN [err |-> "missing protocol scheme", Scheme |-> "", Host |-> ""]
    ELSE IF u = "http://[::1"
    THEN [err |-> "missing ']' in host", Scheme |-> "", Host |-> ""]
    ELSE IF u = "https://api.example.com"
    THEN [err |-> "", Scheme |-> "https", Host |-> "api.example.com"]
    ELSE IF u = "https://api.ainative.studio"
    THEN [err |-> "", Scheme |-> "https", Host |-> "api.ainative.studio"]
    ELSE [err |-> "", Scheme |-> "", Host |-> ""]

\* No client: what NewClient returns with an error.
NilClient ==
    [isNil |-> TRUE, RetryCount |-> 0, RetryWaitTime |-> 0, RetryMaxWaitTime |-> 0,
     Header |-> [project |-> "", org |-> ""]]

NilLimiter == [tokens |-> 0, last |-> 0, lastEvent |-> 0]

\* fmt.Errorf(...): an error that is of none of the SDK's error types.
PlainError(msg) == Err("plain", msg)

\* NewClient filling in the default rate limit whatever the caller set.
NewClient_AlwaysDefaultRateLimit(cfg) ==
    LET baseURL == IF cfg.BaseURL = "" THEN DefaultBaseURL ELSE cfg.BaseURL
        timeout == IF cfg.Timeout = 0 THEN DefaultTimeout ELSE cfg.Timeout
        withDefaults == [cfg EXCEPT !.BaseURL = baseURL, !.Timeout = timeout,
                                    !.RateLimit = DefaultRateLimit]
        failed(msg, c) == [err |-> PlainError(msg), config |-> c,
                           httpClient |-> NilClient, rateLimiter |-> NilLimiter]
    IN  IF cfg.isNil THEN failed("config cannot be nil", cfg)
        ELSE IF cfg.APIKey = "" THEN failed("API key is required", cfg)
        ELSE IF UrlParse(baseURL).err # "" THEN failed("invalid base URL", withDefaults)
        ELSE [err |-> Err("nil", ""),
              config |-> withDefaults,
              httpClient |-> [isNil |-> FALSE,
                              RetryCount |-> DefaultMaxRetries,
                              RetryWaitTime |-> DefaultInitialDelay,
                              RetryMaxWaitTime |-> DefaultMaxDelay,
                              Header |-> [project |-> "",
                                          org |-> cfg.OrganizationID]],
              rateLimiter |-> NewLimiter(DefaultRateLimit)]

\* NewClient(config): the error, or the client (its configuration with
\* the defaults filled in, its HTTP client with the headers and the retry
\* settings, its limiter).  The defaults are written into the caller's
\* Config before the base URL is looked at.
NewClient(cfg) ==
    LET baseURL == IF cfg.BaseURL = "" THEN DefaultBaseURL ELSE cfg.BaseURL
        timeout == IF cfg.Timeout = 0 THEN DefaultTimeout ELSE cfg.Timeout
        rateLimit == IF cfg.RateLimit = 0 THEN DefaultRateLimit ELSE cfg.RateLimit
        retryConfig == IF cfg.RetryConfig.isNil
                       THEN [isNil |-> FALSE, MaxRetries |-> DefaultMaxRetries,
                             InitialDelay |-> DefaultInitialDelay,
                             MaxDelay |-> DefaultMaxDelay,
                             BackoffMultiplier |-> 2, Jitter |-> TRUE]
                       ELSE cfg.RetryConfig
        withDefaults == [cfg EXCEPT !.BaseURL = baseURL, !.Timeout = timeout,
                                    !.RateLimit = rateLimit]
        failed(msg, c) == [err |-> PlainError(msg), config |-> c,
                           httpClient |-> NilClient, rateLimiter |-> NilLimiter]
    IN  IF cfg.isNil THEN failed("config cannot be nil", cfg)
        ELSE IF cfg.APIKey = "" THEN failed("API key is required", cfg)
        ELSE IF UrlParse(baseURL).err # "" THEN failed("invalid base URL", withDefaults)
        ELSE [err |-> Err("nil", ""),
              config |-> withDefaults,
              httpClient |-> [isNil |-> FALSE,
                              RetryCount |-> retryConfig.MaxRetries,
                              RetryWaitTime |-> retryConfig.InitialDelay,
                              RetryMaxWaitTime |-> retryConfig.MaxDelay,
                              Header |-> [project |-> "",
                                          org |-> cfg.OrganizationID]],
              rateLimiter |-> NewLimiter(rateLimit)]

\* One Wait call as the limiter has seen it: when it came, how it fared
\* ("ctxdone": the context was done already, "refused": the wait would
\* exceed the deadline, "pass": a token at once, "wait": a token later) and
\* whether it still holds the token it reserved; and when Wait returned
\* nil to it, -1 if it has not.
Issued(t, outcome) ==
    [t |-> t, outcome |-> outcome, held |-> outcome \in {"pass", "wait"},
     admitted |-> IF outcome = "pass" THEN t ELSE -1]

\* makeRequest from its entry up to the first point where it blocks: the
\* span is started, rateLimiter.Wait(ctx) and, when a token is there at once, the
\* method switch and the start of the first attempt.
makeRequest(p, c0) ==
    LET c == [c0 EXCEPT !.callNo = Len(issued) + 1, !.spanStarts = @ + 1]
        maxFutureReserve == IF c.deadline = -1 THEN -1 ELSE c.deadline - now
        r == reserveN(rateLimiter, now, maxFutureReserve)
        others(cs) == [q \in Callers |->
                         IF q # p /\ cs[q].pc = "wait"
                         THEN [cs[q] EXCEPT !.overtaken = TRUE] ELSE cs[q]]
    IN  /\ Len(issued) < MaxCalls
        /\ IF CtxErr(c, now) # ""
           THEN /\ call' = [call EXCEPT ![p] = Finish([c EXCEPT !.outcome = "ctxdone"],
                                                      Err("ratelimit", CtxErr(c, now)))]
                /\ issued' = Append(issued, Issued(now, "ctxdone"))
                /\ UNCHANGED rateLimiter
           ELSE IF ~r.ok
           THEN /\ call' = [call EXCEPT ![p] = Finish([c EXCEPT !.outcome = "refused"],
                                                      Err("ratelimit", "exceed"))]
                /\ issued' = Append(issued, Issued(now, "refused"))
                /\ UNCHANGED rateLimiter
           ELSE IF r.timeToAct = now
           THEN /\ call' = [others(call) EXCEPT
                              ![p] = Dispatch([c EXCEPT !.outcome = "pass",
                                                        !.timeToAct = now], now)]
                /\ issued' = Append(issued, Issued(now, "pass"))
                /\ rateLimiter' = r.lim
           ELSE /\ call' = [others(call) EXCEPT
                              ![p] = [c EXCEPT !.pc = "wait", !.outcome = "wait",
                                               !.timeToAct = r.timeToAct]]
                /\ issued' = Append(issued, Issued(now, "wait"))
                /\ rateLimiter' = r.lim
        /\ UNCHANGED <<config, httpClient, now>>

\* The callers are interchangeable goroutines: they are numbered in the
\* order in which they are busy, so a caller takes up a call only when
\* the callers before it are in one.
Free(p) ==
    /\ call[p].pc \in {"idle", "done"}
    /\ \A q \in Callers : q < p => call[q].pc \notin {"idle", "done"}

\* A caller calls makeRequest(ctx, method, path, body, result) directly.
StartCall(p, m, hasResult, cancelled, deadline) ==
    /\ Free(p)
    /\ makeRequest(p, [IdleCall EXCEPT !.op = "makeRequest", !.method = m,
                                       !.hasResult = hasResult,
                                       !.cancelled = cancelled,
                                       !.deadline = deadline])

\* Of the two events a blocked call selects on, the earlier one wins.  A
\* cancellation that comes before the reservation's time is first; one
\* that comes at or after it finds the timer fired already; a deadline
\* that falls on the reservation's time is a tie, which either may win.
CtxFirst(c) == c.doneIn = "wait"
Tie(c, t) == ~c.cancelled /\ c.deadline = c.timeToAct /\ t >= c.deadline

\* The limiter's timer fires: Wait returns nil and makeRequest goes on.
TimerFired(p) ==
    /\ call[p].pc = "wait"
    /\ now >= call[p].timeToAct
    /\ ~CtxFirst(call[p])
    /\ call' = [call EXCEPT ![p] = Dispatch(call[p], now)]
    /\ issued' = [issued EXCEPT ![call[p].callNo].admitted = now]
    /\ UNCHANGED <<config, httpClient, rateLimiter, now>>

\* The context is done while the call waits for its token: Wait cancels
\* the reservation and returns ctx.Err().
WaitCancelled(p) ==
    LET c == call[p]
        lim == CancelAt(rateLimiter, c.timeToAct, now)
        back == Available(lim, now)
                    = Min(Capacity, Available(rateLimiter, now) + TicksPerToken)
    IN  /\ c.pc = "wait"
        /\ CtxFirst(c) \/ Tie(c, now)
        /\ rateLimiter' = lim
        /\ call' = [call EXCEPT ![p] = Finish([c EXCEPT !.returned = back],
                                              Err("ratelimit", CtxErr(c, now)))]
        /\ issued' = [issued EXCEPT ![c.callNo].held = ~back]
        /\ UNCHANGED <<config, httpClient, now>>

\* The response of the server to the attempt in flight arrives: the HTTP
\* client decodes the body (on a 2xx it drops the request's error object
\* and decodes the result; on a status above 399 it decodes into the error
\* object, if the request still has it), and the retry loop decides.
Respond(p, r) ==
    LET c == call[p]
        isSuccess == r.status > 199 /\ r.status < 300
        isError == r.status > 399
        decodes == isSuccess /\ c.hasResult /\ r.kind \in {"json", "empty"}
        execErr == IF isSuccess /\ c.hasResult /\ r.kind = "bad" THEN "decode" ELSE ""
        c1 == [c EXCEPT !.resp = r,
                        !.decoded = decodes,
                        !.apiError = IF isError /\ r.kind = "json" /\ c.errorSet
                                     THEN Unmarshal(@, r) ELSE @,
                        !.errorSet = IF isSuccess THEN FALSE ELSE @,
                        !.first = IF c.attempts = 1 THEN r.status ELSE @,
                        !.succeeded = isSuccess /\ execErr = "",
                        !.lead500 = IF r.status = 500 /\ @ = c.attempts - 1
                                    THEN @ + 1 ELSE @]
    IN  /\ c.pc = "send"
        /\ \E d \in JitterBackoff(httpClient.RetryWaitTime,
                                  httpClient.RetryMaxWaitTime, c.attempts - 1) :
              call' = [call EXCEPT ![p] = Sleeping(AfterAttempt(c1, r, execErr, now), d)]
        /\ UNCHANGED <<config, httpClient, rateLimiter, now, issued>>

\* The attempt in flight fails without a response: a network failure, or
\* the context being done.
TransportError(p) ==
    LET c == call[p]
        execErr == IF CtxErr(c, now) # "" THEN CtxErr(c, now) ELSE "transport"
    IN  /\ c.pc = "send"
        /\ \E d \in JitterBackoff(httpClient.RetryWaitTime,
                                  httpClient.RetryMaxWaitTime, c.attempts - 1) :
              call' = [call EXCEPT ![p] = Sleeping(AfterAttempt(c, NoResponse, execErr, now), d)]
        /\ UNCHANGED <<config, httpClient, rateLimiter, now, issued>>

\* A retry that goes through the limiter like a call of its own.
SleepElapsed_TakesToken(p) ==
    /\ call[p].pc = "sleep"
    /\ CtxErr(call[p], now) = ""
    /\ call' = [call EXCEPT ![p] = BeginAttempt(call[p], now)]
    /\ rateLimiter' = reserveN(rateLimiter, now, -1).lim
    /\ UNCHANGED <<config, httpClient, now, issued>>

\* The sleep before a retry is over: the next attempt starts.
SleepElapsed(p) ==
    /\ call[p].pc = "sleep"
    /\ CtxErr(call[p], now) = ""
    /\ call' = [call EXCEPT ![p] = BeginAttempt(call[p], now)]
    /\ UNCHANGED <<config, httpClient, rateLimiter, now, issued>>

\* The sleep before a retry going on to the next attempt on a context
\* that is done.
SleepCancelled_NextAttempt(p) ==
    /\ call[p].pc = "sleep"
    /\ CtxErr(call[p], now) # ""
    /\ call' = [call EXCEPT ![p] = [call[p] EXCEPT !.pc = "send", !.attempts = @ + 1]]
    /\ UNCHANGED <<config, httpClient, rateLimiter, now, issued>>

\* The context is done during the sleep before a retry: the retry loop
\* returns ctx.Err().
SleepCancelled(p) ==
    /\ call[p].pc = "sleep"
    /\ CtxErr(call[p], now) # ""
    /\ call' = [call EXCEPT ![p] = Finish(call[p], Err("request", CtxErr(call[p], now)))]
    /\ UNCHANGED <<config, httpClient, rateLimiter, now, issued>>

\* Where a call is when its context becomes done at time t: its blocking
\* point, or "late" when the limiter's timer has fired before.
DoneIn(c, t) == IF c.pc = "wait" /\ t >= c.timeToAct THEN "late" ELSE c.pc

\* The caller cancels the context of its running call.
Cancel(p) ==
    LET c == call[p]
    IN  /\ c.pc \in {"wait", "send", "sleep"}
        /\ CtxErr(c, now) = ""
        /\ call' = [call EXCEPT ![p] = [c EXCEPT !.cancelled = TRUE,
                                                 !.doneIn = DoneIn(c, now)]]
        /\ UNCHANGED <<config, httpClient, rateLimiter, now, issued>>

\* A call blocked in the limiter whose timer has fired or whose context is
\* done: its goroutine is runnable.
Woken(c, t) == c.pc = "wait" /\ (c.doneIn = "wait" \/ t >= c.timeToAct)

\* The clock advances, once the runnable goroutines have run; a deadline
\* that is reached makes its context done.
Tick ==
    /\ now < MaxTime
    /\ \A p \in Callers : ~Woken(call[p], now)
    /\ now' = now + 1
    /\ call' = [p \in Callers |->
                  LET c == call[p]
                  IN  IF /\ c.pc \in {"wait", "send", "sleep"}
                         /\ CtxErr(c, now) = ""
                         /\ CtxErr(c, now + 1) # ""
                      THEN [c EXCEPT !.doneIn = DoneIn(c, now + 1)]
                      ELSE c]
    /\ UNCHANGED <<config, httpClient, rateLimiter, issued>>

\* ------------------------------------------- construction and the setters
\* A caller calls NewClient(config) with the configuration at hand: it
\* gets the error or the client.
Construct(p) ==
    LET r == NewClient(config)
    IN  /\ httpClient.isNil
        /\ \A q \in Callers : call[q].pc = "idle"
        /\ call' = [call EXCEPT ![p] = [IdleCall EXCEPT
                        !.op = "NewClient", !.pc = "done", !.err = r.err,
                        !.result = IF r.httpClient.isNil THEN "nil" ELSE "value"]]
        /\ config' = r.config
        /\ httpClient' = r.httpClient
        /\ rateLimiter' = r.rateLimiter
        /\ UNCHANGED <<now, issued>>

\* A caller enters SetProjectID(v) or SetOrganizationID(v).
Setter(p, op, v) ==
    /\ ~httpClient.isNil
    /\ Free(p)
    /\ call' = [call EXCEPT ![p] = [IdleCall EXCEPT !.op = op, !.arg = v,
                                                    !.pc = "setcfg"]]
    /\ UNCHANGED <<config, httpClient, rateLimiter, now, issued>>

SetProjectID(p, v) == Setter(p, "SetProjectID", v)

SetOrganizationID(p, v) == Setter(p, "SetOrganizationID", v)

\* The first statement of a setter: c.config.ProjectID = projectID, or
\* c.config.OrganizationID = orgID.
WriteConfig(p) ==
    LET c == call[p]
    IN  /\ c.pc = "setcfg"
        /\ config' = IF c.op = "SetProjectID"
                     THEN [config EXCEPT !.ProjectID = c.arg]
                     ELSE [config EXCEPT !.OrganizationID = c.arg]
        /\ call' = [call EXCEPT ![p].pc = "sethdr"]
        /\ UNCHANGED <<httpClient, rateLimiter, now, issued>>

\* A setter that returns without SetHeader.
WriteHeader_NoHeader(p) ==
    /\ call[p].pc = "sethdr"
    /\ call' = [call EXCEPT ![p].pc = "done"]
    /\ UNCHANGED <<config, httpClient, rateLimiter, now, issued>>

\* The second statement of a setter: c.httpClient.SetHeader(name, value),
\* and the setter returns.
WriteHeader(p) ==
    LET c == call[p]
    IN  /\ c.pc = "sethdr"
        /\ httpClient' = IF c.op = "SetProjectID"
                         THEN [httpClient EXCEPT !.Header.project = c.arg]
                         ELSE [httpClient EXCEPT !.Header.org = c.arg]
        /\ call' = [call EXCEPT ![p].pc = "done"]
        /\ UNCHANGED <<config, rateLimiter, now, issued>>

\* The shared memory a caller touches with its next step, and how: a
\* setter writes its field of the configuration and then the header map
\* of the HTTP client; a request about to start an attempt reads the
\* header map to fill in the headers of the request.  None of them takes a
\* lock.
NextAccess(c) ==
    IF c.pc = "setcfg"
    THEN {[loc |-> IF c.op = "SetProjectID" THEN "config.ProjectID"
                   ELSE "config.OrganizationID", write |-> TRUE]}
    ELSE IF c.pc = "sethdr" THEN {[loc |-> "httpClient.Header", write |-> TRUE]}
    ELSE IF c.pc \in {"wait", "sleep"}
    THEN {[loc |-> "httpClient.Header", write |-> FALSE]}
    ELSE {}

\* Two callers are about to touch the same memory, one of them writing.
Race(p, q) ==
    /\ p # q
    /\ \E a \in NextAccess(call[p]), b \in NextAccess(call[q]) :
            a.loc = b.loc /\ (a.write \/ b.write)

\* ---------------------------------------------------- the service methods
\* A *LoginRequest: nil, or its two fields.
LoginRequests ==
    {[isNil |-> TRUE, Username |-> "", Password |-> ""]}
        \cup [isNil : {FALSE}, Username : {"", "u"}, Password : {"", "pw"}]

\* The checks of Login with the one on the password left out.
LoginValidation_NoPassword(req) ==
    IF req.isNil THEN "request"
    ELSE IF req.Username = "" THEN "username"
    ELSE ""

\* The checks of AuthService.Login before it calls makeRequest: the field
\* of the ValidationError it returns, "" when the request passes.
LoginValidation(req) ==
    IF req.isNil THEN "request"
    ELSE IF req.Username = "" THEN "username"
    ELSE IF req.Password = "" THEN "password"
    ELSE ""

\* The checks of EmbeddingsService.SemanticSearch, with its defaults for
\* a zero limit and a zero threshold.  The threshold is in tenths.
SemanticSearchValidation(projectID, query, limit, threshold) ==
    LET lim == IF limit = 0 THEN 10 ELSE limit
        thr == IF threshold = 0 THEN 7 ELSE threshold
    IN  IF projectID = "" THEN "project_id"
        ELSE IF query = "" THEN "query"
        ELSE IF lim < 1 \/ lim > 100 THEN "limit"
        ELSE IF thr < 0 \/ thr > 10 THEN "threshold"
        ELSE ""

\* The arguments the checks of the two methods are there to turn down: a
\* nil request, a missing required field, a number out of range.
LoginArgsInvalid(req) == req.isNil \/ req.Username = "" \/ req.Password = ""

SemanticSearchArgsInvalid(projectID, query, limit, threshold) ==
    \/ projectID = ""
    \/ query = ""
    \/ limit < 0 \/ limit > 100
    \/ threshold < 0 \/ threshold > 10

\* A service method: it returns the ValidationError of its checks, or
\* calls makeRequest with its method and a result to decode into.
ServiceCall(p, op, field, invalid) ==
    LET c == [IdleCall EXCEPT !.op = op, !.hasResult = TRUE,
                              !.method = IF op = "ListAPIKeys" THEN "GET" ELSE "POST",
                              !.invalidArgs = invalid]
    IN  /\ Free(p)
        /\ IF field # ""
           THEN /\ call' = [call EXCEPT ![p] = [c EXCEPT !.pc = "done",
                                                        !.err = Err("validation", field)]]
                /\ UNCHANGED <<config, httpClient, rateLimiter, now, issued>>
           ELSE makeRequest(p, c)

\* AuthService.Login(ctx, req)
Login(p, req) ==
    ServiceCall(p, "Login", LoginValidation(req), LoginArgsInvalid(req))

\* EmbeddingsService.SemanticSearch(ctx, projectID, query, limit, threshold, ...)
SemanticSearch(p, projectID, query, limit, threshold) ==
    ServiceCall(p, "SemanticSearch",
                SemanticSearchValidation(projectID, query, limit, threshold),
                SemanticSearchArgsInvalid(projectID, query, limit, threshold))

\* AuthService.ListAPIKeys(ctx): no checks.
ListAPIKeys(p) == ServiceCall(p, "ListAPIKeys", "", FALSE)

\* The checks of VectorsService.Search before it calls makeRequest.
VectorsSearchValidation(projectID, req) ==
    IF projectID = "" THEN "project_id"
    ELSE IF req.isNil THEN "request"
    ELSE IF req.Vector = 0 THEN "vector"
    ELSE ""

VectorsSearchArgsInvalid(projectID, req) ==
    projectID = "" \/ req.isNil \/ req.Vector = 0

\* VectorsService.Search(ctx, projectID, req): after the checks, a TopK
\* that is not positive is set to the default, and the request is the body
\* of the POST.
VectorsSearch(p, projectID, req) ==
    LET field == VectorsSearchValidation(projectID, req)
        c == [IdleCall EXCEPT !.op = "VectorsSearch", !.arg = projectID,
                              !.hasResult = TRUE, !.method = "POST",
                              !.invalidArgs = VectorsSearchArgsInvalid(projectID, req),
                              !.req = req]
    IN  /\ Free(p)
        /\ IF field # ""
           THEN /\ call' = [call EXCEPT ![p] = [c EXCEPT !.pc = "done",
                                                        !.err = Err("validation", field)]]
                /\ UNCHANGED <<config, httpClient, rateLimiter, now, issued>>
           ELSE makeRequest(p, [c EXCEPT !.body = IF req.TopK <= 0
                                                  THEN [req EXCEPT !.TopK = DefaultTopK]
                                                  ELSE req])

\* --------------------------------------------------- the token inspection
\* ParseToken(tokenString): ParseUnverified splits the string, decodes the
\* header and the claims and looks up the signing method; the signature is
\* not looked at.  The error ("" for nil) and the ExpiresAt of the claims.
ParseToken(tokenString) ==
    LET failed(cause) == [err |-> Err("parse", cause), ExpiresAt |-> NoExpiry]
    IN  IF tokenString.segments # 3 THEN failed("segments")
        ELSE IF tokenString.header = "bad" THEN failed("header")
        ELSE IF tokenString.claims = "bad" THEN failed("claims")
        ELSE IF tokenString.alg # "HS256" THEN failed("alg")
        ELSE [err |-> Err("nil", ""), ExpiresAt |-> tokenString.exp]

\* IsTokenExpired taking a token without "exp" for expired.
IsTokenExpired_NoExpiryExpired(tokenString, t) ==
    LET r == ParseToken(tokenString)
    IN  IF r.err.kind # "nil" THEN [expired |-> TRUE, err |-> r.err]
        ELSE [expired |-> r.ExpiresAt < t, err |-> r.err]

\* IsTokenExpired(tokenString) at time t: (true, err) when the token does
\* not parse, (false, nil) without "exp", else ExpiresAt.Before(now).
IsTokenExpired(tokenString, t) ==
    LET r == ParseToken(tokenString)
    IN  IF r.err.kind # "nil" THEN [expired |-> TRUE, err |-> r.err]
        ELSE IF r.ExpiresAt = NoExpiry THEN [expired |-> FALSE, err |-> r.err]
        ELSE [expired |-> r.ExpiresAt < t, err |-> r.err]

\* GetTokenExpirationTime(tokenString): (nil, err), (nil, nil) without
\* "exp", else the time.
GetTokenExpirationTime(tokenString) ==
    LET r == ParseToken(tokenString)
    IN  [expTime |-> r.ExpiresAt, err |-> r.err]

\* A caller calls IsTokenExpired or GetTokenExpirationTime on a token.
InspectToken(p, op, tokenString) ==
    LET e == IsTokenExpired(tokenString, now)
        g == GetTokenExpirationTime(tokenString)
    IN  /\ Free(p)
        /\ call' = [call EXCEPT ![p] =
                      [IdleCall EXCEPT
                          !.op = op, !.pc = "done", !.token = tokenString, !.at = now,
                          !.err = IF op = "IsTokenExpired" THEN e.err ELSE g.err,
                          !.expired = IF op = "IsTokenExpired" THEN e.expired ELSE FALSE,
                          !.expTime = IF op = "IsTokenExpired" THEN NoExpiry ELSE g.expTime]]
        /\ UNCHANGED <<config, httpClient, rateLimiter, now, issued>>

\* --------------------------------------------------- the specifications
InitWith(cfgs) ==
    /\ \E cfg \in cfgs :
            /\ NewClient(cfg).err.kind = "nil"
            /\ config = NewClient(cfg).config
            /\ httpClient = NewClient(cfg).httpClient
            /\ rateLimiter = NewClient(cfg).rateLimiter
    /\ now = 0
    /\ call = [p \in Callers |-> IdleCall]
    /\ issued = <<>>

\* One call of makeRequest by one caller, with every method and every
\* response and no clock: the retry loop and the mapping of the final
\* response to the returned error.
Init == InitWith({cfg \in Configs : cfg.RateLimit = 2})

Next ==
    \/ \E m \in Methods, hasResult \in BOOLEAN, cancelled \in BOOLEAN :
            call[1].pc = "idle" /\ StartCall(1, m, hasResult, cancelled, -1)
    \/ \E r \in Responses : Respond(1, r)
    \/ TransportError(1)
    \/ SleepElapsed(1)
    \/ SleepCancelled(1)
    \/ Cancel(1)

Spec == Init /\ [][Next]_vars

\* The callers sharing the client, the clock and the limiter, with plain
\* responses.
LimInit ==
    InitWith({cfg \in Configs : /\ cfg.RateLimit \in {1, 2}
                                /\ ~cfg.RetryConfig.isNil
                                /\ cfg.RetryConfig.MaxRetries = 0})

LimNext ==
    \/ \E p \in Callers, deadline \in {-1, now + 1} :
            StartCall(p, "GET", TRUE, FALSE, deadline)
    \/ \E p \in Callers : TimerFired(p)
    \/ \E p \in Callers : WaitCancelled(p)
    \/ \E p \in Callers, r \in PlainResponses : Respond(p, r)
    \/ \E p \in Callers : Cancel(p)
    \/ Tick

LimSpec == LimInit /\ [][LimNext]_vars

\* Two callers on a constructed client: the setters and the requests.
SetInit ==
    InitWith({cfg \in Configs : /\ cfg.RateLimit = 0
                                /\ ~cfg.RetryConfig.isNil
                                /\ cfg.RetryConfig.MaxRetries = 1})

SetNext ==
    \/ \E p \in Callers, v \in {"", "p"} : SetProjectID(p, v)
    \/ \E p \in Callers, v \in {"", "o"} : SetOrganizationID(p, v)
    \/ \E p \in Callers : WriteConfig(p)
    \/ \E p \in Callers : WriteHeader(p)
    \/ \E p \in Callers : StartCall(p, "GET", TRUE, FALSE, -1)
    \/ \E p \in Callers, r \in PlainResponses : Respond(p, r)
    \/ \E p \in Callers : SleepElapsed(p)

SetSpec == SetInit /\ [][SetNext]_vars

\* One caller from before the construction on: NewClient on every
\* configuration, then the setters and the requests.
NewInit ==
    /\ config \in NewConfigs
    /\ httpClient = NilClient
    /\ rateLimiter = NilLimiter
    /\ now = 0
    /\ call = [p \in Callers |-> IdleCall]
    /\ issued = <<>>

NewNext ==
    \/ Construct(1)
    \/ \E v \in {"", "p"} : SetProjectID(1, v)
    \/ \E v \in {"", "o"} : SetOrganizationID(1, v)
    \/ WriteConfig(1)
    \/ WriteHeader(1)
    \/ ~httpClient.isNil /\ StartCall(1, "GET", TRUE, FALSE, -1)
    \/ \E r \in PlainResponses : Respond(1, r)
    \/ SleepElapsed(1)

NewSpec == NewInit /\ [][NewNext]_vars

\* One caller and the retry configurations with their delays: the sleeps
\* between the attempts of a call.
BackoffInit ==
    InitWith([isNil : {FALSE}, APIKey : {"k"}, BaseURL : {""},
              OrganizationID : {""}, ProjectID : {""}, Timeout : {0},
              RateLimit : {0}, RetryConfig : BackoffRetryConfigs])

BackoffNext ==
    \/ StartCall(1, "GET", TRUE, FALSE, -1)
    \/ \E r \in PlainResponses : Respond(1, r)
    \/ TransportError(1)
    \/ SleepElapsed(1)

BackoffSpec == BackoffInit /\ [][BackoffNext]_vars

\* One caller and the statuses: which of them the retry loop retries.
RetryNext ==
    \/ StartCall(1, "GET", TRUE, FALSE, -1)
    \/ \E r \in StatusResponses : Respond(1, r)
    \/ SleepElapsed(1)

RetrySpec == Init /\ [][RetryNext]_vars

\* One caller inspecting tokens as the clock goes on.
TokenNext ==
    \/ \E tokenString \in Tokens : InspectToken(1, "IsTokenExpired", tokenString)
    \/ \E tokenString \in Tokens : InspectToken(1, "GetTokenExpirationTime", tokenString)
    \/ Tick

TokenSpec == Init /\ [][TokenNext]_vars

\* One caller going through the service methods, with plain responses.
SvcNext ==
    \/ \E req \in LoginRequests : Login(1, req)
    \/ \E projectID \in {"", "p"}, query \in {"", "q"},
          limit \in {-1, 0, 5, 101}, threshold \in {-1, 0, 5, 11} :
            SemanticSearch(1, projectID, query, limit, threshold)
    \/ ListAPIKeys(1)
    \/ \E projectID \in {"", "p"}, req \in VectorSearchRequests :
            VectorsSearch(1, projectID, req)
    \/ \E r \in SvcResponses : Respond(1, r)
    \/ TransportError(1)
    \/ SleepElapsed(1)
    \/ SleepCancelled(1)
    \/ Cancel(1)

SvcSpec == Init /\ [][SvcNext]_vars

\* One caller, the clock and the limiter, with the scheduling of the Go
\* runtime: a call whose context is done is woken up and runs on.
LiveInit ==
    InitWith({cfg \in Configs : /\ cfg.RateLimit = 1
                                /\ ~cfg.RetryConfig.isNil
                                /\ cfg.RetryConfig.MaxRetries = 1})

LiveNext ==
    \/ \E m \in Methods, deadline \in {-1, now + 1} :
            StartCall(1, m, TRUE, FALSE, deadline)
    \/ TimerFired(1)
    \/ WaitCancelled(1)
    \/ \E r \in PlainResponses : Respond(1, r)
    \/ TransportError(1)
    \/ SleepElapsed(1)
    \/ SleepCancelled(1)
    \/ Cancel(1)
    \/ Tick

LiveSpec ==
    /\ LiveInit
    /\ [][LiveNext]_vars
    /\ WF_vars(WaitCancelled(1))
    /\ WF_vars(SleepCancelled(1))

\* ------------------------------------------------------- the properties
\* C1: with maxRetries = N, a call whose every attempt is answered by a 500
\* and whose context stays live makes exactly N + 1 attempts and then
\* returns the APIError of the 500.
C1_RetriesExhaustedAfterNPlusOne ==
    \A p \in Callers :
        LET c == call[p]
        IN  /\ c.attempts <= httpClient.RetryCount + 1
            /\ (c.pc = "done" /\ c.doneIn = "" /\ c.attempts >= 1
                    /\ c.lead500 = c.attempts)
                   => /\ c.attempts = httpClient.RetryCount + 1
                      /\ c.err.kind = "api"
                      /\ c.err.StatusCode = 500

\* C1's case: three 500s with maxRetries = 2, and the call has returned.
C1_Witness ==
    /\ httpClient.RetryCount = 2
    /\ call[1].pc = "done" /\ call[1].doneIn = ""
    /\ call[1].lead500 = 3 /\ call[1].attempts = 3
    /\ call[1].err.kind = "api"

\* C2: a call whose first response is a 4xx other than 429 has returned
\* with that one attempt, whatever maxRetries is, and its error is an
\* APIError with the status of the response and, the body being an error
\* body with a message, the message and the code of the body.
C2_ClientErrorSingleAttempt ==
    \A p \in Callers :
        LET c == call[p]
        IN  (c.first >= 400 /\ c.first <= 499 /\ c.first # 429)
                => /\ c.pc = "done"
                   /\ c.attempts = 1
                   /\ c.err.kind = "api"
                   /\ c.err.StatusCode = c.first
                   /\ c.resp.status = c.first
                   /\ c.resp.message # ""
                        => /\ c.err.Message = c.resp.message
                           /\ c.err.Code = c.resp.code

\* C2's case: a 400 with a message and a code, with maxRetries = 2.
C2_Witness ==
    /\ httpClient.RetryCount = 2
    /\ call[1].pc = "done" /\ call[1].first = 400 /\ call[1].attempts = 1
    /\ call[1].err.Message = "m1" /\ call[1].err.Code = "c1"

\* C3: a call that gets a 2xx it can decode has returned at that attempt,
\* the k-th after k - 1 attempts answered by 500s, with no error and the
\* result decoded; no attempt follows the success.
C3_FirstSuccessReturns ==
    \A p \in Callers :
        LET c == call[p]
        IN  c.succeeded
                => /\ c.pc = "done"
                   /\ c.err.kind = "nil"
                   /\ c.resp.status >= 200 /\ c.resp.status <= 299
                   /\ c.hasResult => c.decoded
                   /\ c.attempts <= httpClient.RetryCount + 1

\* C3's case: 500, 500, 200 with maxRetries = 3 (the default).
C3_Witness ==
    /\ httpClient.RetryCount = 3
    /\ call[1].pc = "done" /\ call[1].succeeded /\ call[1].hasResult
    /\ call[1].lead500 = 2 /\ call[1].attempts = 3
    /\ call[1].err.kind = "nil" /\ call[1].decoded

\* C4: the APIError a call returns is that of its last response only: the
\* status is the last response's, the message is the last body's or the
\* generic one, the code is the last body's or none, and the request ID
\* is the last body's or the last response's header.
C4_LastAttemptOnly ==
    \A p \in Callers :
        LET c == call[p]
        IN  (c.pc = "done" /\ c.err.kind = "api")
                => /\ c.err.StatusCode = c.resp.status
                   /\ c.err.Message \in {c.resp.message, FallbackMessage(c.resp.status)}
                   /\ c.err.Code \in {c.resp.code, ""}
                   /\ c.err.RequestID \in {c.resp.rid, c.resp.hdr, ""}

\* C4's case: the retries are used up, the last 500 has a message and no
\* code, and the error returned has the code of an earlier response.
C4_Witness ==
    /\ call[1].pc = "done" /\ call[1].err.kind = "api"
    /\ call[1].attempts = httpClient.RetryCount + 1 /\ call[1].attempts >= 2
    /\ call[1].resp.message = "m2" /\ call[1].resp.code = ""
    /\ call[1].err.Message = "m2" /\ call[1].err.Code = "c1"

\* C5: a call with a method outside GET, POST, PUT, DELETE, PATCH that has
\* returned has made no attempt and has left the limiter as it was (full,
\* on this fresh client).
C5_UnsupportedMethodFailsFast ==
    \A p \in Callers :
        LET c == call[p]
        IN  (c.pc = "done" /\ c.op = "makeRequest"
                /\ ToUpper(c.method) \notin SupportedMethods)
                => /\ c.err.kind \notin {"nil", "api"}
                   /\ c.attempts = 0
                   /\ rateLimiter = NewLimiter(config.RateLimit)

\* C5's case: the unsupported method is turned down after the limiter has
\* handed the call a token.
C5_Witness ==
    /\ call[1].pc = "done" /\ call[1].method = "TRACE"
    /\ call[1].err.kind = "unsupported" /\ call[1].attempts = 0
    /\ call[1].outcome = "pass"
    /\ rateLimiter.tokens = (config.RateLimit - 1) * TicksPerToken

\* C6: on a client with RateLimit = 2, of two calls made one after the
\* other by one caller with no time between them, the first passes the
\* limiter at once and the second waits for it.
C6_SecondCallDelayed ==
    \A p \in Callers :
        LET c == call[p]
        IN  (/\ config.RateLimit = 2
             /\ Len(issued) = 2 /\ c.callNo = 2
             /\ issued[1].t = issued[2].t
             /\ \A q \in Callers \ {p} : call[q].pc = "idle")
                => /\ issued[1].outcome = "pass"
                   /\ c.outcome = "wait"

\* C6's case: the second of the two calls has passed the limiter at once.
C6_Witness ==
    /\ config.RateLimit = 2
    /\ Len(issued) = 2 /\ call[1].callNo = 2 /\ call[2].pc = "idle"
    /\ issued[1].t = 0 /\ issued[2].t = 0
    /\ issued[1].outcome = "pass" /\ call[1].outcome = "pass"
    /\ call[1].pc = "send"

\* C7: a call that comes when burst calls holding their tokens have come
\* less than a refill interval before it does not pass the limiter at once
\* (it waits, or is turned down because the wait would pass its deadline);
\* and when every call comes at least a refill interval after the one
\* before it, every call passes at once.
C7_BurstThenWait ==
    LET n == Len(issued)
        heldBefore(i) == {j \in 1..(i - 1) :
                            /\ issued[j].held
                            /\ issued[i].t - issued[j].t < TicksPerToken}
    IN  /\ \A i \in 1..n :
              Cardinality(heldBefore(i)) >= Burst
                  => issued[i].outcome \in {"wait", "refused"}
        /\ (\A i \in 1..(n - 1) : issued[i + 1].t - issued[i].t >= TicksPerToken)
              => \A i \in 1..n : issued[i].outcome = "pass"

\* C7's cases: with a burst of 1, a call a refill interval after the
\* first passes at once, and a call one tick after that one waits.
C7_Witness ==
    /\ config.RateLimit = 1 /\ Len(issued) = 3
    /\ issued[1].t = 0 /\ issued[1].outcome = "pass"
    /\ issued[2].t = TicksPerToken /\ issued[2].outcome = "pass"
    /\ issued[3].t = TicksPerToken + 1 /\ issued[3].outcome = "wait"
    /\ issued[2].held

C9_CancelledCallReturnsCancellation ==
    /\ [](\A p \in Callers :
            (call[p].pc = "done" /\ call[p].doneIn \in {"wait", "sleep"})
                => /\ call[p].err.kind \in {"ratelimit", "request"}
                   /\ call[p].err.cause \in {"canceled", "deadline"})
    /\ [][\A p \in Callers :
            (call[p].doneIn \in {"wait", "sleep"}
                /\ call'[p].callNo = call[p].callNo)
                => call'[p].attempts = call[p].attempts]_vars
    /\ \A p \in Callers :
            (call[p].pc \in {"wait", "sleep"} /\ call[p].doneIn \in {"wait", "sleep"})
                ~> (call[p].pc = "done" /\ call[p].doneIn \in {"wait", "sleep"})

\* C9's case: a call cancelled in the sleep before its retry has returned
\* the context's error after its one attempt.
C9_Witness ==
    /\ call[1].pc = "done" /\ call[1].doneIn = "sleep"
    /\ call[1].err.kind = "request" /\ call[1].err.cause = "canceled"
    /\ call[1].attempts = 1

\* C10: a call of a service method with arguments its checks are there to
\* turn down has returned a ValidationError and has not entered
\* makeRequest: no attempt, and the limiter has not seen it.
C10_ValidationBeforeDispatch ==
    \A p \in Callers :
        LET c == call[p]
        IN  c.invalidArgs
                => /\ c.pc = "done"
                   /\ c.err.kind = "validation"
                   /\ c.attempts = 0
                   /\ c.callNo = 0 /\ c.outcome = ""

\* C10's case: a SemanticSearch with a limit out of range has returned its
\* ValidationError after an earlier call took a token, and the limiter has
\* seen that one call only.
C10_Witness ==
    /\ call[1].pc = "done" /\ call[1].op = "SemanticSearch"
    /\ call[1].invalidArgs
    /\ call[1].err.kind = "validation" /\ call[1].err.cause = "limit"
    /\ Len(issued) = 1
    /\ rateLimiter.tokens = (config.RateLimit - 1) * TicksPerToken

\* C11: no two callers are ever about to touch the same memory of the
\* client, its configuration or the header map of its HTTP client, with
\* one of them writing and nothing ordering the two.
C11_NoUnsynchronizedAccess ==
    \A p \in Callers, q \in Callers : ~Race(p, q)

\* C11's case: two callers are in SetProjectID at once, each about to
\* write c.config.ProjectID.
C11_Witness ==
    /\ call[1].op = "SetProjectID" /\ call[1].pc = "setcfg"
    /\ call[2].op = "SetProjectID" /\ call[2].pc = "setcfg"
    /\ Race(1, 2)

\* C12: a service method that has returned has returned exactly one of
\* its result and its error: the result is nil if and only if the error
\* is not.
C12_ResultXorError ==
    \A p \in Callers :
        LET c == call[p]
        IN  (c.pc = "done" /\ c.op \in {"Login", "SemanticSearch", "ListAPIKeys"})
                => (c.result = "nil" <=> c.err.kind # "nil")

\* C12's case: ListAPIKeys has got a 200 with an object without api_keys
\* and has returned a nil slice and a nil error.
C12_Witness ==
    /\ call[1].pc = "done" /\ call[1].op = "ListAPIKeys"
    /\ call[1].resp = EmptyObject /\ call[1].decoded
    /\ call[1].err.kind = "nil" /\ call[1].result = "nil"

\* C13: a call whose last response has a status outside 200-299 has
\* returned an error.
C13_NonSuccessStatusIsError ==
    \A p \in Callers :
        LET c == call[p]
        IN  (c.pc = "done" /\ c.resp # NoResponse
                /\ (c.resp.status < 200 \/ c.resp.status > 299))
                => c.err.kind # "nil"

\* C13's case: the one response of the call is a 304, and the call has
\* returned nil.
C13_Witness ==
    /\ call[1].pc = "done" /\ call[1].attempts = 1
    /\ call[1].resp.status = 304
    /\ call[1].err.kind = "nil"

\* C14: the APIError of a response whose body has a message and no
\* request_id, and which has an X-Request-ID header, has the header's
\* value as its RequestID.
C14_RequestIDFromHeader ==
    \A p \in Callers :
        LET c == call[p]
        IN  (c.pc = "done" /\ c.err.kind = "api" /\ c.attempts = 1
                /\ c.resp.message # "" /\ c.resp.rid = "" /\ c.resp.hdr # "")
                => c.err.RequestID = c.resp.hdr

\* C14's case: a 400 with a message, a code and the header, and the
\* APIError returned has no request ID.
C14_Witness ==
    /\ call[1].pc = "done" /\ call[1].attempts = 1
    /\ call[1].resp.status = 400 /\ call[1].resp.message = "m1"
    /\ call[1].resp.code = "c1" /\ call[1].resp.rid = "" /\ call[1].resp.hdr = "h1"
    /\ call[1].err.kind = "api" /\ call[1].err.Message = "m1"
    /\ call[1].err.RequestID = ""

\* C15: a call that has returned the error of a transport failure, of a
\* timeout or of a cancellation has returned it as a NetworkError.
C15_TransportFailureIsNetworkError ==
    \A p \in Callers :
        LET c == call[p]
        IN  (c.pc = "done"
                /\ c.err.cause \in {"transport", "canceled", "deadline", "exceed"})
                => c.err.kind = "network"

\* C15's case: every attempt has failed in the transport, and the call
\* has returned fmt.Errorf("request failed: %w", err).
C15_Witness ==
    /\ call[1].pc = "done" /\ call[1].attempts = httpClient.RetryCount + 1
    /\ call[1].first = 0 /\ call[1].resp = NoResponse
    /\ call[1].err.kind = "request" /\ call[1].err.cause = "transport"

\* C16: a call whose first response is a 2xx that does not decode into
\* the result has returned an error with that one attempt.
C16_DecodeFailureNotRetried ==
    \A p \in Callers :
        LET c == call[p]
        IN  (c.first >= 200 /\ c.first <= 299 /\ c.attempts = 1 /\ ~c.succeeded)
                => /\ c.pc = "done"
                   /\ c.err.kind # "nil"

\* C16's case: the first 200 did not decode, the call went on to use up
\* its retries, and has returned the decode error of the last attempt.
C16_Witness ==
    /\ httpClient.RetryCount = 2
    /\ call[1].pc = "done" /\ call[1].attempts = 3
    /\ call[1].first = 200 /\ call[1].resp.status = 200 /\ call[1].resp.kind = "bad"
    /\ call[1].err.kind = "request" /\ call[1].err.cause = "decode"

\* C17: with jitter disabled, the delay a call sleeps before its n-th
\* retry is min(MaxDelay, InitialDelay * BackoffMultiplier^(n-1)): it is
\* at most MaxDelay and not less than the delay before.
C17_BackoffDelayFormula ==
    \A p \in Callers :
        LET c == call[p]
            rc == config.RetryConfig
        IN  (c.pc = "sleep" /\ ~rc.isNil /\ ~rc.Jitter)
                => /\ c.delay = Min(rc.MaxDelay,
                                    rc.InitialDelay * rc.BackoffMultiplier^(c.attempts - 1))
                   /\ c.delay <= rc.MaxDelay
                   /\ c.prevDelay <= c.delay

\* C17's case: InitialDelay 1, MaxDelay 6, BackoffMultiplier 3, no
\* jitter; the call sleeps 1 before its second retry, where the formula
\* has 3.
C17_Witness ==
    /\ config.RetryConfig.InitialDelay = 1 /\ config.RetryConfig.MaxDelay = 6
    /\ config.RetryConfig.BackoffMultiplier = 3 /\ ~config.RetryConfig.Jitter
    /\ call[1].pc = "sleep" /\ call[1].attempts = 2
    /\ call[1].prevDelay = 1 /\ call[1].delay = 1

\* C18: NewClient with a nil config or with an empty API key fails with a
\* ConfigError and returns no client.
C18_InvalidConfigIsConfigError ==
    LET c == call[1]
    IN  (c.op = "NewClient" /\ c.pc = "done" /\ (config.isNil \/ config.APIKey = ""))
            => /\ c.err.kind = "config"
               /\ c.result = "nil"
               /\ httpClient.isNil

\* C18's case: NewClient has returned for a config without an API key; no
\* client came back, and the error is a plain one.
C18_Witness ==
    /\ call[1].op = "NewClient" /\ call[1].pc = "done"
    /\ ~config.isNil /\ config.APIKey = ""
    /\ call[1].result = "nil" /\ httpClient.isNil
    /\ call[1].err = PlainError("API key is required")

\* C19: a client is only ever returned with a base URL that is a valid
\* absolute URL, one with a scheme and a host.
C19_ClientHasAbsoluteBaseURL ==
    ~httpClient.isNil
        => /\ UrlParse(config.BaseURL).err = ""
           /\ UrlParse(config.BaseURL).Scheme # ""
           /\ UrlParse(config.BaseURL).Host # ""

\* C19's case: NewClient has returned a client for the base URL
\* "api.example.com", which has neither scheme nor host.
C19_Witness ==
    /\ call[1].op = "NewClient" /\ call[1].pc = "done"
    /\ call[1].err.kind = "nil" /\ call[1].result = "value"
    /\ ~httpClient.isNil
    /\ config.BaseURL = "api.example.com"

\* C20: every attempt of a request, the first and each retry, carries the
\* project ID header whenever a project ID is configured and the
\* organization ID header whenever an organization ID is configured.
C20_AttemptsCarryConfiguredIDs ==
    \A p \in Callers :
        LET c == call[p]
        IN  c.pc = "send"
                => /\ (config.ProjectID # "" => c.sent.project = config.ProjectID)
                   /\ (config.OrganizationID # ""
                          => c.sent.org = config.OrganizationID)

\* C20's case: the client was built from a config with project ID "p" and
\* organization ID "o"; a retry is on the wire with the organization
\* header and without the project header.
C20_Witness ==
    /\ config.ProjectID = "p" /\ config.OrganizationID = "o"
    /\ call[1].pc = "send" /\ call[1].attempts = 2
    /\ call[1].sent = [project |-> "", org |-> "o"]

\* C21: when SetProjectID(v) or SetOrganizationID(v) returns, the
\* configuration (what GetConfig returns) and the header of the client
\* hold v; the setter changes no other field of the configuration and no
\* other header; nothing but a setter changes them afterwards; and a
\* request that starts takes the headers the client has then, and keeps
\* them on its retries.
C21_SetterTakesEffect ==
    [][LET c == call[1]
           d == call'[1]
           inSetter == c.pc \in {"setcfg", "sethdr"}
       IN  /\ (inSetter /\ c.op = "SetProjectID")
                 => /\ config' = [config EXCEPT !.ProjectID = c.arg]
                    /\ httpClient'.Header.org = httpClient.Header.org
                    /\ d.pc = "done" => httpClient'.Header.project = c.arg
           /\ (inSetter /\ c.op = "SetOrganizationID")
                 => /\ config' = [config EXCEPT !.OrganizationID = c.arg]
                    /\ httpClient'.Header.project = httpClient.Header.project
                    /\ d.pc = "done" => httpClient'.Header.org = c.arg
           /\ (~inSetter /\ ~httpClient.isNil)
                 => config' = config /\ httpClient' = httpClient
           /\ (c.pc # "send" /\ d.pc = "send")
                 => d.sent = IF d.attempts = 1 THEN httpClient.Header ELSE c.sent
      ]_vars

\* C21's case: after SetProjectID("p") on a client built without a
\* project ID, a request is on its second attempt with the project header.
C21_Witness ==
    /\ config.ProjectID = "p" /\ httpClient.Header.project = "p"
    /\ call[1].op = "makeRequest" /\ call[1].pc = "send" /\ call[1].attempts = 2
    /\ call[1].sent.project = "p"

\* C22: a call whose final response has a status of 400 or more and a
\* body that does not decode into the error shape, or decodes with an
\* empty message, returns an APIError with the status of that response and
\* the generic message.
C22_UndecodableErrorBodyIsGeneric ==
    \A p \in Callers :
        LET c == call[p]
        IN  (/\ c.pc = "done"
             /\ c.resp.status >= 400
             /\ (c.resp.kind = "bad" \/ c.resp.message = ""))
                => /\ c.err.kind = "api"
                   /\ c.err.StatusCode = c.resp.status
                   /\ c.err.Message = FallbackMessage(c.resp.status)

\* C22's case: the first attempt was answered by an error body with the
\* message "m1", the second and last one by a 500 whose body does not
\* decode; the call returns an APIError with "m1".
C22_Witness ==
    /\ call[1].pc = "done" /\ call[1].attempts = 2
    /\ call[1].resp.status = 500 /\ call[1].resp.kind = "bad"
    /\ call[1].err.kind = "api" /\ call[1].err.StatusCode = 500
    /\ call[1].err.Message = "m1"

\* C23: VectorsService.Search with a project ID, a vector that is not
\* empty and TopK = 0 has returned a ValidationError about topK, and no
\* request has been sent.
C23_ZeroTopKIsValidationError ==
    \A p \in Callers :
        LET c == call[p]
        IN  (/\ c.op = "VectorsSearch" /\ c.arg # ""
             /\ ~c.req.isNil /\ c.req.Vector > 0 /\ c.req.TopK = 0)
                => /\ c.pc = "done"
                   /\ c.err.kind = "validation" /\ c.err.cause = "top_k"
                   /\ c.attempts = 0 /\ c.callNo = 0

\* C23's case: the Search with TopK = 0 is on the wire, with TopK 5 in its
\* body.
C23_Witness ==
    /\ call[1].op = "VectorsSearch" /\ call[1].arg = "p"
    /\ call[1].req = [isNil |-> FALSE, Vector |-> 3, TopK |-> 0]
    /\ call[1].pc = "send" /\ call[1].attempts = 1
    /\ call[1].body.TopK = DefaultTopK

\* C24: IsTokenExpired returns false and no error for a token without an
\* expiry and true for a token whose expiry is in the past; for a token
\* that is structurally invalid (not three segments, or a header or
\* claims segment that does not decode) IsTokenExpired and
\* GetTokenExpirationTime both return a decode error.
C24_TokenInspection ==
    \A p \in Callers :
        LET c == call[p]
            tok == c.token
            invalid == tok.segments # 3 \/ tok.header = "bad" \/ tok.claims = "bad"
            wellFormed == ~invalid /\ tok.alg = "HS256"
        IN  (c.pc = "done" /\ c.op \in {"IsTokenExpired", "GetTokenExpirationTime"})
                => /\ invalid => c.err.kind = "parse"
                   /\ (c.op = "IsTokenExpired" /\ wellFormed /\ tok.exp = NoExpiry)
                         => (~c.expired /\ c.err.kind = "nil")
                   /\ (c.op = "IsTokenExpired" /\ wellFormed
                            /\ tok.exp # NoExpiry /\ tok.exp < c.at)
                         => (c.expired /\ c.err.kind = "nil")

\* C24's cases: IsTokenExpired has run on a well-formed token without an
\* expiry, after the clock has moved.
C24_Witness ==
    /\ call[1].op = "IsTokenExpired" /\ call[1].pc = "done"
    /\ call[1].token = [segments |-> 3, header |-> "json", alg |-> "HS256",
                        claims |-> "json", exp |-> NoExpiry]
    /\ call[1].at = 2
    /\ ~call[1].expired /\ call[1].err.kind = "nil"

\* C25: a NewClient that succeeds leaves the configuration with BaseURL,
\* Timeout and RateLimit at their defaults exactly where the caller had
\* left them zero, and with every other value as the caller set it.
C25_DefaultsWhereZero ==
    [][(httpClient.isNil /\ ~httpClient'.isNil)
          => /\ config'.BaseURL = IF config.BaseURL = "" THEN DefaultBaseURL
                                  ELSE config.BaseURL
             /\ config'.Timeout = IF config.Timeout = 0 THEN DefaultTimeout
                                  ELSE config.Timeout
             /\ config'.RateLimit = IF config.RateLimit = 0 THEN DefaultRateLimit
                                    ELSE config.RateLimit
             /\ [config' EXCEPT !.BaseURL = "", !.Timeout = 0, !.RateLimit = 0]
                    = [config EXCEPT !.BaseURL = "", !.Timeout = 0, !.RateLimit = 0]
      ]_vars

\* C25's case: NewClient has returned a client for a configuration with
\* no base URL, no timeout and the rate limit 50.
C25_Witness ==
    /\ call[1].op = "NewClient" /\ call[1].pc = "done" /\ call[1].err.kind = "nil"
    /\ ~httpClient.isNil
    /\ config.BaseURL = DefaultBaseURL
    /\ config.Timeout = DefaultTimeout
    /\ config.RateLimit = 50
    /\ config.ProjectID = "p" /\ config.OrganizationID = "o"

\* C26: in every interval of time, the calls the limiter has let pass
\* (Wait returned nil to them in the interval) are at most the burst plus
\* the tokens refilled during the interval, under every interleaving of
\* the callers.  Tokens are counted in ticks' worth of refill.  The
\* intervals looked at are those from one admission to another: any other
\* interval holds the same calls as one of these within it.
C26_AdmittedWithinBurstPlusRate ==
    \A i \in DOMAIN issued, j \in DOMAIN issued :
        LET a == issued[i].admitted
            b == issued[j].admitted
        IN  (0 <= a /\ a <= b)
                => Cardinality({k \in DOMAIN issued :
                                    issued[k].admitted >= a /\ issued[k].admitted <= b})
                        * TicksPerToken
                     <= Capacity + (b - a)

\* C26's case: with the rate limit 1, two callers have come at time 0; one
\* passed at once, the other one waited and passed one refill interval
\* later; a third call waits behind it.
C26_Witness ==
    /\ config.RateLimit = 1
    /\ Len(issued) = 3
    /\ issued[1].t = 0 /\ issued[1].admitted = 0
    /\ issued[2].t = 0 /\ issued[2].outcome = "wait"
    /\ issued[2].admitted = TicksPerToken
    /\ issued[3].outcome = "wait" /\ issued[3].admitted = -1

\* C27: a call of makeRequest starts one span; the span is open while the
\* call runs and has been ended exactly once when the call has returned,
\* however it returned.
C27_SpanEndedOnce ==
    \A p \in Callers :
        LET c == call[p]
        IN  c.op = "makeRequest"
                => /\ c.spanStarts = 1
                   /\ c.pc \in {"wait", "send", "sleep"} => c.spanEnds = 0
                   /\ c.pc = "done" => c.spanEnds = 1

\* C27's case: a call whose deadline passed while it waited for its token
\* has returned the limiter's error, with its span ended.
C27_Witness ==
    /\ call[1].op = "makeRequest" /\ call[1].pc = "done"
    /\ call[1].outcome = "wait" /\ call[1].err.kind = "ratelimit"
    /\ call[1].attempts = 0
    /\ call[1].spanStarts = 1 /\ call[1].spanEnds = 1

\* C28: a call goes to the limiter once, when it enters makeRequest, and
\* takes one token there if it is let in; the attempts after the first one
\* start without the limiter being touched.
C28_OneTokenPerCall ==
    [][\A p \in Callers :
          LET c == call[p]
              d == call'[p]
          IN  /\ (d.callNo = c.callNo /\ c.attempts >= 1 /\ d.attempts = c.attempts + 1)
                    => (rateLimiter' = rateLimiter /\ issued' = issued)
              /\ (d.callNo # c.callNo /\ d.callNo # 0)
                    => /\ Len(issued') = Len(issued) + 1
                       /\ d.callNo = Len(issued')
                       /\ issued'[d.callNo].held
                             => rateLimiter'.tokens
                                    = advance(rateLimiter, now) - TicksPerToken
                       /\ ~issued'[d.callNo].held => rateLimiter' = rateLimiter
      ]_vars

\* C28's case: a call is on its second attempt; the limiter has seen one
\* Wait and has given out one token.
C28_Witness ==
    /\ call[1].op = "makeRequest" /\ call[1].pc = "send" /\ call[1].attempts = 2
    /\ Len(issued) = 1 /\ issued[1].held
    /\ rateLimiter.tokens = Capacity - TicksPerToken
    /\ rateLimiter.last = issued[1].t

\* C29: a first attempt answered with a status s >= 400, with retries
\* left, is retried if and only if IsRetryable() is true of an APIError
\* with the status s.
C29_RetriedIffIsRetryable ==
    \A p \in Callers :
        LET c == call[p]
        IN  (/\ c.op = "makeRequest" /\ c.attempts = 1 /\ c.first >= 400
             /\ httpClient.RetryCount >= 1
             /\ c.pc \in {"sleep", "done"})
                => (c.pc = "sleep"
                        <=> IsRetryable([Err("api", "") EXCEPT !.StatusCode = c.first]))

\* C29's case: the first attempt was answered with the status 600, and
\* the call sleeps before its retry.
C29_Witness ==
    /\ call[1].op = "makeRequest" /\ call[1].attempts = 1
    /\ call[1].first = 600 /\ call[1].pc = "sleep"
    /\ httpClient.RetryCount = 1

\* C30: when the callers' SetProjectID calls (or their SetOrganizationID
\* calls) have all returned, the configuration and the header of the
\* client hold the same value, the argument of one of the calls.
C30_SettersLeaveConfigAndHeaderEqual ==
    /\ (\A p \in Callers : call[p].op = "SetProjectID" /\ call[p].pc = "done")
          => /\ config.ProjectID = httpClient.Header.project
             /\ \E p \in Callers : config.ProjectID = call[p].arg
    /\ (\A p \in Callers : call[p].op = "SetOrganizationID" /\ call[p].pc = "done")
          => /\ config.OrganizationID = httpClient.Header.org
             /\ \E p \in Callers : config.OrganizationID = call[p].arg

\* C30's case: SetProjectID("p") and SetProjectID("") ran at once and
\* have both returned; the configuration has "" and the header has "p".
C30_Witness ==
    /\ call[1].op = "SetProjectID" /\ call[1].pc = "done" /\ call[1].arg = "p"
    /\ call[2].op = "SetProjectID" /\ call[2].pc = "done" /\ call[2].arg = ""
    /\ config.ProjectID = "" /\ httpClient.Header.project = "p"

====
